---- MODULE Spec2Model ----
(***************************************************************************)
(* Model of the recommendation service of the sales backend                *)
(* (app/services/recomendacion/sistema_recomendaciones.py) and of the      *)
(* endpoint that calls it (app/api/endpoints/recomendaciones.py).          *)
(*                                                                         *)
(* Numbers that are floats in the program are fixed-point integers here,   *)
(* in units of 1/ONE: the score 0.4 is 4 * ONE / 10.  ONE is a multiple of *)
(* 1000 and of every denominator the histories below produce, so that the  *)
(* divisions of the program are exact in the model.                        *)
(***************************************************************************)
EXTENDS Integers, Sequences, FiniteSets, TLC

\* ------------------------------------------------------------------ bounds
\* Number of products in the catalogue (ids 1..NProd).
NProd == 12
\* Products 1..NLibres have a stock drawn freely from StockLibre.
NLibres == 2
\* A new call is accepted only while the recomendaciones table holds at most
\* this many rows (the table grows without bound otherwise).
MaxPrevias == 1
\* Number of sales in the histories the query helpers are called on.
HMaxVentas == 2
VMaxVentas == 2

\* --------------------------------------------------------------- constants
ONE == 1000 * 12
MIN_SCORE == ONE \div 10
MAX_RECOMMENDATIONS == 10
W_categoria == (4 * ONE) \div 10
W_ventas == (3 * ONE) \div 10
W_bought_together == (3 * ONE) \div 10

\* A NULL category (Producto.categoria is nullable) and Python's None.
NULL == "NULL"
None == <<>>
Some(x) == <<x>>

\* Python truthiness of an Optional[int] (if producto_id:) and of an
\* Optional[str] (if categoria_actual and ...).
TruthyInt(o) == o # None /\ o[1] # 0
TruthyStr(c) == c # NULL /\ c # ""

Min(a, b) == IF a <= b THEN a ELSE b
Max(a, b) == IF a >= b THEN a ELSE b

\* ------------------------------------------------------------------- state
VARIABLES
    productos,        \* productos table: id -> row
    orden,            \* the order in which the table enumerates its rows
    clientes,         \* ids of the clientes table
    ventas,           \* ventas table: sequence of [id, cliente_id]
    detalles,         \* detalles_venta table: sequence of line items
    recomendaciones,  \* committed rows of the recomendaciones table
    pc,               \* per request: position in generar_recomendaciones
    args,             \* per request: cliente_id, producto_id, limit
    loc,              \* per request: local variables of the call
    pendientes,       \* per request: rows added to the session, not committed
    resultado,        \* per request: what the call returned or raised
    antes,            \* per request: recomendaciones when the call started
    sc_in,            \* input of a direct _calculate_recommendation_score call
    sc_out,           \* its result
    usuarios,         \* usuarios table: sequence of [username, email]
    is_seeding,       \* the module-level flag of the seed endpoints
    tareas            \* per POST /seed request: where the request and its task are

vars == <<productos, orden, clientes, ventas, detalles, recomendaciones,
          pc, args, loc, pendientes, resultado, antes, sc_in, sc_out,
          usuarios, is_seeding, tareas>>

bd == <<productos, orden, clientes, ventas, detalles, usuarios>>
sc == <<sc_in, sc_out>>
siembra == <<is_seeding, tareas>>

Peticiones == {"r1", "r2"}
Secuencial == {"r1"}

\* ---------------------------------------------------------------- catalogue
ProdIds == 1..NProd
CatCiclo == <<"A", "B", NULL>>
VentasCiclo == <<0, 150, -1, 50, 100>>
StockLibre == {0, 3}

ProductoFijo(p, surtido) ==
    [id |-> p,
     categoria |-> CatCiclo[(p % 3) + 1],
     precio |-> 100 * p,
     stock |-> IF surtido THEN 1 + (p % 2) ELSE 0,
     ventas_ultimo_mes |-> VentasCiclo[(p % 5) + 1],
     baja_rotacion |-> (p % 4 = 0)]

Catalogos ==
    {[p \in ProdIds |->
        IF p <= NLibres THEN [ProductoFijo(p, TRUE) EXCEPT !.stock = libres[p]]
        ELSE ProductoFijo(p, surtido)] :
     libres \in [1..NLibres -> StockLibre], surtido \in BOOLEAN}

RECURSIVE Rango(_, _)
Rango(a, b) == IF a > b THEN <<>> ELSE <<a>> \o Rango(a + 1, b)
RECURSIVE Reverso(_)
Reverso(s) == IF s = <<>> THEN <<>> ELSE Reverso(Tail(s)) \o <<Head(s)>>

Ordenes == {Rango(1, NProd), Reverso(Rango(1, NProd))}

\* Sales histories: each sale is a customer and its line items (product ids;
\* create_venta stores one DetalleVenta per line item and does not merge
\* repeated products).
Plantillas ==
    << [cliente_id |-> 1, items |-> <<1, 2>>],
       [cliente_id |-> 2, items |-> <<1, 1, 3, 4>>] >>

RECURSIVE DetallesDe(_, _)
DetallesDe(n, k) ==
    \* the line items of sales 1..n, sale by sale (k is the sale being expanded)
    IF k > n THEN <<>>
    ELSE [i \in 1..Len(Plantillas[k].items) |->
            [venta_id |-> k, producto_id |-> Plantillas[k].items[i], cantidad |-> 1]]
         \o DetallesDe(n, k + 1)

VentasDe(n) == [k \in 1..n |-> [id |-> k, cliente_id |-> Plantillas[k].cliente_id]]

ClienteIds == {1, 2}

\* ------------------------------------------------- fixed-point arithmetic
\* a / b and a * b on floats, in units of 1/ONE.
Div(a, b) == (a * ONE) \div b
Mul(a, b) == (a * b) \div ONE

\* ------------------------------------------------------ RecomendacionService
EmptyDict == [k \in {} |-> 0]

\* Query.distinct(): the rows without repetitions, first occurrences kept.
RECURSIVE Distinct(_)
Distinct(s) ==
    IF s = <<>> THEN <<>>
    ELSE LET resto == Distinct(SubSeq(s, 1, Len(s) - 1))
             x == s[Len(s)]
         IN  IF \E i \in DOMAIN resto : resto[i] = x THEN resto ELSE Append(resto, x)

\* productos JOIN detalles_venta JOIN ventas WHERE ventas.cliente_id = :c,
\* projected on (productos.id, productos.categoria): one row per line item.
HistorialJoin(cliente_id) ==
    LET es(d) == /\ d.producto_id \in DOMAIN productos
                 /\ \E k \in DOMAIN ventas :
                       /\ ventas[k].id = d.venta_id
                       /\ ventas[k].cliente_id = cliente_id
        filas == SelectSeq(detalles, es)
    IN  [i \in 1..Len(filas) |->
            <<filas[i].producto_id, productos[filas[i].producto_id].categoria>>]

\* Mutant: .distinct() is forgotten.
HistorialSinDistinct(cliente_id) == HistorialJoin(cliente_id)

_get_client_purchase_history(cliente_id) == Distinct(HistorialJoin(cliente_id))

\* Mutant: the counts are normalised by the number of categories.
PreferenciasPorCategorias(cliente_id) ==
    LET purchases == _get_client_purchase_history(cliente_id)
        cats == {purchases[i][2] : i \in DOMAIN purchases}
    IN  IF Len(purchases) = 0 THEN EmptyDict
        ELSE [c \in cats |->
                 Div(Cardinality({i \in DOMAIN purchases : purchases[i][2] = c}),
                     Cardinality(cats))]

\* Mutant: a customer with no purchases gets a uniform preference over the
\* categories of the catalogue instead of the empty mapping.
PreferenciasPorDefecto(cliente_id) ==
    LET purchases == _get_client_purchase_history(cliente_id)
        total_purchases == Len(purchases)
        todas == {productos[p].categoria : p \in DOMAIN productos}
    IN  IF total_purchases = 0
        THEN [c \in todas |-> Div(1, Cardinality(todas))]
        ELSE [c \in {purchases[i][2] : i \in DOMAIN purchases} |->
                 Div(Cardinality({i \in DOMAIN purchases : purchases[i][2] = c}),
                     total_purchases)]

_get_category_preferences(cliente_id) ==
    LET purchases == _get_client_purchase_history(cliente_id)
        total_purchases == Len(purchases)
        category_counts == [c \in {purchases[i][2] : i \in DOMAIN purchases} |->
                               Cardinality({i \in DOMAIN purchases : purchases[i][2] = c})]
    IN  IF total_purchases = 0 THEN EmptyDict
        ELSE [c \in DOMAIN category_counts |->
                 Div(category_counts[c], total_purchases)]

\* The subquery yields one row per line item of the seed product (it is not
\* DISTINCT); the outer query joins every line item to it on venta_id,
\* drops the seed's own line items and counts the joined rows per product.
Frecuencia(p, producto_id) ==
    Cardinality({ij \in (DOMAIN detalles) \X (DOMAIN detalles) :
        /\ detalles[ij[1]].producto_id = p
        /\ detalles[ij[2]].producto_id = producto_id
        /\ detalles[ij[1]].venta_id = detalles[ij[2]].venta_id
        /\ \E k \in DOMAIN ventas : ventas[k].id = detalles[ij[2]].venta_id})

MaxDe(S) == LET x == CHOOSE y \in S : \A z \in S : y >= z IN x

\* Mutant: the frequencies are normalised by their sum, not their maximum.
CompradosJuntosPorSuma(producto_id) ==
    LET relacionados == {d.producto_id : d \in
                            {detalles[i] : i \in DOMAIN detalles}} \ {producto_id}
        productos_relacionados ==
            {p \in relacionados : Frecuencia(p, producto_id) > 0}
        total == Cardinality({ij \in (DOMAIN detalles) \X (DOMAIN detalles) :
                    /\ detalles[ij[1]].producto_id # producto_id
                    /\ detalles[ij[2]].producto_id = producto_id
                    /\ detalles[ij[1]].venta_id = detalles[ij[2]].venta_id})
    IN  IF productos_relacionados = {} THEN EmptyDict
        ELSE [p \in productos_relacionados |-> Div(Frecuencia(p, producto_id), total)]

\* The result as the mapping dict(productos_relacionados) the caller builds.
_get_frequently_bought_together(producto_id) ==
    LET relacionados == {d.producto_id : d \in
                            {detalles[i] : i \in DOMAIN detalles}} \ {producto_id}
        productos_relacionados ==
            {p \in relacionados : Frecuencia(p, producto_id) > 0}
        max_frequency ==
            MaxDe({Frecuencia(p, producto_id) : p \in productos_relacionados})
    IN  IF productos_relacionados = {} THEN EmptyDict
        ELSE [p \in productos_relacionados |->
                 Div(Frecuencia(p, producto_id), max_frequency)]

\* Mutant: the preference branch is an `if`, not an `elif`: a candidate in the
\* seed's category gets the preference contribution on top of the full weight.
PuntajeSinElif(producto, categoria_actual, categoria_preferences, bought_together_scores) ==
    LET coincide == TruthyStr(categoria_actual) /\ producto.categoria = categoria_actual
        s_pref ==
            IF /\ DOMAIN categoria_preferences # {}
               /\ producto.categoria \in DOMAIN categoria_preferences
            THEN Mul(W_categoria, categoria_preferences[producto.categoria])
            ELSE 0
        s_ventas ==
            IF producto.ventas_ultimo_mes > 0
            THEN Mul(W_ventas, Min(Div(producto.ventas_ultimo_mes, 100), ONE))
            ELSE 0
        s_bt ==
            IF /\ DOMAIN bought_together_scores # {}
               /\ producto.id \in DOMAIN bought_together_scores
            THEN Mul(W_bought_together, bought_together_scores[producto.id])
            ELSE 0
    IN  (IF coincide THEN W_categoria ELSE 0) + s_pref + s_ventas + s_bt

\* Mutant: the seed's category is compared with != instead of ==.
PuntajeSinCoincidencia(producto, categoria_actual, categoria_preferences, bought_together_scores) ==
    LET s_cat ==
            IF TruthyStr(categoria_actual) /\ producto.categoria # categoria_actual
            THEN W_categoria
            ELSE IF /\ DOMAIN categoria_preferences # {}
                    /\ producto.categoria \in DOMAIN categoria_preferences
                 THEN Mul(W_categoria, categoria_preferences[producto.categoria])
                 ELSE 0
        s_ventas ==
            IF producto.ventas_ultimo_mes > 0
            THEN Mul(W_ventas, Min(Div(producto.ventas_ultimo_mes, 100), ONE))
            ELSE 0
        s_bt ==
            IF /\ DOMAIN bought_together_scores # {}
               /\ producto.id \in DOMAIN bought_together_scores
            THEN Mul(W_bought_together, bought_together_scores[producto.id])
            ELSE 0
    IN  s_cat + s_ventas + s_bt

Puntaje(producto, categoria_actual, categoria_preferences, bought_together_scores) ==
    LET s_cat ==
            IF TruthyStr(categoria_actual) /\ producto.categoria = categoria_actual
            THEN W_categoria
            ELSE IF /\ DOMAIN categoria_preferences # {}
                    /\ producto.categoria \in DOMAIN categoria_preferences
                 THEN Mul(W_categoria, categoria_preferences[producto.categoria])
                 ELSE 0
        s_ventas ==
            IF producto.ventas_ultimo_mes > 0
            THEN Mul(W_ventas, Min(Div(producto.ventas_ultimo_mes, 100), ONE))
            ELSE 0
        s_bt ==
            IF /\ DOMAIN bought_together_scores # {}
               /\ producto.id \in DOMAIN bought_together_scores
            THEN Mul(W_bought_together, bought_together_scores[producto.id])
            ELSE 0
    IN  s_cat + s_ventas + s_bt

\* Mutant: the floor is forgotten (return min(score, 1.0)).
ScoreSinPiso(producto, categoria_actual, categoria_preferences, bought_together_scores) ==
    Min(Puntaje(producto, categoria_actual, categoria_preferences,
                bought_together_scores), ONE)

_calculate_recommendation_score(producto, categoria_actual, categoria_preferences, bought_together_scores) ==
    LET score == Puntaje(producto, categoria_actual, categoria_preferences,
                         bought_together_scores)
    IN  Max(Min(score, ONE), MIN_SCORE)

\* Mutant: an unstable sort, an item goes in front of the items of equal score.
RECURSIVE InsertarAntes(_, _)
InsertarAntes(x, s) ==
    IF s = <<>> THEN <<x>>
    ELSE IF Head(s).score > x.score THEN <<Head(s)>> \o InsertarAntes(x, Tail(s))
    ELSE <<x>> \o s

\* list.sort(key=score, reverse=True): stable, equal scores keep their order.
RECURSIVE Insertar(_, _)
Insertar(x, s) ==
    IF s = <<>> THEN <<x>>
    ELSE IF Head(s).score >= x.score THEN <<Head(s)>> \o Insertar(x, Tail(s))
    ELSE <<x>> \o s

\* Mutant: the list is not sorted at all.
SinOrdenar(s) == s

RECURSIVE SortDesc(_)
SortDesc(s) ==
    IF s = <<>> THEN <<>>
    ELSE Insertar(s[Len(s)], SortDesc(SubSeq(s, 1, Len(s) - 1)))

\* Python's s[:k] for any integer k.
Slice(s, k) ==
    IF k >= 0 THEN SubSeq(s, 1, Min(k, Len(s)))
    ELSE SubSeq(s, 1, Max(Len(s) + k, 0))

\* Mutant: the slice keeps the end of the sorted list.
TruncarFinal(s, limit) ==
    LET k == Len(Slice(s, Min(limit, MAX_RECOMMENDATIONS)))
    IN  SubSeq(s, Len(s) - k + 1, Len(s))

Truncar(s, limit) == Slice(s, Min(limit, MAX_RECOMMENDATIONS))

\* Mutant: products already recommended to someone are no longer candidates.
CandidatosNoRecomendados(producto_id) ==
    LET ok(p) == /\ productos[p].stock > 0
                 /\ (TruthyInt(producto_id) => p # producto_id[1])
                 /\ \A i \in DOMAIN recomendaciones :
                        recomendaciones[i].producto_recomendado_id # p
    IN  [i \in 1..Len(SelectSeq(orden, ok)) |-> productos[SelectSeq(orden, ok)[i]]]

\* Mutant: the stock filter is stock >= 0.
CandidatosStockCero(producto_id) ==
    LET ok(p) == /\ productos[p].stock >= 0
                 /\ (TruthyInt(producto_id) => p # producto_id[1])
    IN  [i \in 1..Len(SelectSeq(orden, ok)) |-> productos[SelectSeq(orden, ok)[i]]]

\* Mutant: the stock filter is forgotten.
CandidatosSinStock(producto_id) ==
    LET ok(p) == TruthyInt(producto_id) => p # producto_id[1]
    IN  [i \in 1..Len(SelectSeq(orden, ok)) |-> productos[SelectSeq(orden, ok)[i]]]

\* Mutant: the query joins the line items, a product comes back once more
\* for each of its line items.
CandidatosRepetidos(producto_id) ==
    LET ok(p) == /\ productos[p].stock > 0
                 /\ (TruthyInt(producto_id) => p # producto_id[1])
        unaVez == [i \in 1..Len(SelectSeq(orden, ok)) |->
                      productos[SelectSeq(orden, ok)[i]]]
        vendido(row) == \E i \in DOMAIN detalles : detalles[i].producto_id = row.id
    IN  unaVez \o SelectSeq(unaVez, vendido)

\* db.query(Producto).filter(Producto.stock > 0)[.filter(Producto.id != seed)]
\* in the table's enumeration order.
Candidatos(producto_id) ==
    LET ok(p) == /\ productos[p].stock > 0
                 /\ (TruthyInt(producto_id) => p # producto_id[1])
    IN  [i \in 1..Len(SelectSeq(orden, ok)) |-> productos[SelectSeq(orden, ok)[i]]]

Puntuar(prods, categoria_actual, categoria_preferences, bought_together_scores) ==
    [i \in 1..Len(prods) |->
        [producto_id |-> prods[i].id,
         categoria |-> prods[i].categoria,
         precio |-> prods[i].precio,
         score |-> _calculate_recommendation_score(
                       prods[i], categoria_actual,
                       categoria_preferences, bought_together_scores),
         baja_rotacion |-> prods[i].baja_rotacion]]

\* Mutant: the row is written as already effective.
NuevaRecomendacionEfectiva(cliente_id, rec) ==
    [cliente_id |-> cliente_id,
     producto_recomendado_id |-> rec.producto_id,
     score |-> rec.score,
     efectiva |-> TRUE]

NuevaRecomendacion(cliente_id, rec) ==
    [cliente_id |-> cliente_id,
     producto_recomendado_id |-> rec.producto_id,
     score |-> rec.score,
     efectiva |-> FALSE]

\* ------------------------------------------------------------ error messages
\* A message is the sequence of its pieces; str(e) of the ValueError raised.
\* Mutant: the message does not name the id.
MsgClienteSinId(cliente_id) == <<"Cliente no encontrado">>

MsgCliente(cliente_id) == <<"Cliente ", cliente_id, " no encontrado">>
MsgProducto(producto_id) == <<"Producto ", producto_id, " no encontrado">>
MsgBD == <<"OperationalError">>
MsgTipo == <<"TypeError">>
Envolver(msg) == <<"Error generando recomendaciones: ">> \o msg

Contiene(msg, sub) ==
    \E i \in 1..(Len(msg) - Len(sub) + 1) : SubSeq(msg, i, i + Len(sub) - 1) = sub

\* -------------------------------------------------------------------- Init
LocInicial ==
    [categoria_actual |-> NULL,
     bought_together_scores |-> EmptyDict,
     categoria_preferences |-> EmptyDict,
     productos |-> <<>>,
     recomendaciones |-> <<>>,
     i |-> 0]

ArgsInicial == [cliente_id |-> 0, producto_id |-> None, limit |-> 0]
SinResultado == [tipo |-> "none", lista |-> <<>>, msg |-> <<>>]
ScInicial == [usado |-> FALSE]

InitPeticiones ==
    /\ pc = [r \in Peticiones |-> "idle"]
    /\ args = [r \in Peticiones |-> ArgsInicial]
    /\ loc = [r \in Peticiones |-> LocInicial]
    /\ pendientes = [r \in Peticiones |-> <<>>]
    /\ resultado = [r \in Peticiones |-> SinResultado]
    /\ antes = [r \in Peticiones |-> <<>>]

\* No user is registered and no seeding has been asked for.
SeedReqs == {"s1", "s2", "s3"}
InitOtros ==
    /\ usuarios = <<>>
    /\ is_seeding = FALSE
    /\ tareas = [t \in SeedReqs |-> "none"]

Init ==
    /\ productos \in Catalogos
    /\ orden \in Ordenes
    /\ clientes = ClienteIds
    /\ \E n \in 0..Len(Plantillas) :
          /\ ventas = VentasDe(n)
          /\ detalles = DetallesDe(n, 1)
    /\ recomendaciones = <<>>
    /\ InitPeticiones
    /\ InitOtros
    /\ sc_in = ScInicial
    /\ sc_out = 0

\* ------------------------------------------------ generar_recomendaciones
ClienteArgs == ClienteIds \cup {99}
ProductoArgs == {None, Some(0), Some(-1), Some(1), Some(2)}
LimitArgs == {-1, 0, 2, NProd}

\* Mutant: the except branch re-raises without rolling back.
SinRollback(r) == pendientes

\* Mutant: the rollback discards the pending rows of every session.
RollbackGlobal(r) == [q \in Peticiones |-> <<>>]

\* except Exception as e: self.db.rollback(); raise ValueError(...)
Rollback(r) == [pendientes EXCEPT ![r] = <<>>]

Fallar(r, msg) ==
    /\ pendientes' = Rollback(r)
    /\ resultado' = [resultado EXCEPT ![r] =
                        [tipo |-> "ValueError", lista |-> <<>>, msg |-> Envolver(msg)]]
    /\ pc' = [pc EXCEPT ![r] = "error"]

\* The request enters generar_recomendaciones(cliente_id, producto_id, limit).
LlamarCon(r, C, P, L) ==
    /\ pc[r] = "idle"
    /\ \E c \in C, p \in P, l \in L :
          args' = [args EXCEPT ![r] = [cliente_id |-> c, producto_id |-> p, limit |-> l]]
    /\ pc' = [pc EXCEPT ![r] = "cliente"]
    /\ antes' = [antes EXCEPT ![r] = recomendaciones]
    /\ UNCHANGED <<bd, siembra, recomendaciones, loc, pendientes, resultado, sc>>

Llamar(r) ==
    /\ Len(recomendaciones) <= MaxPrevias
    /\ LlamarCon(r, ClienteArgs, ProductoArgs, LimitArgs)

\* cliente = self.db.query(Cliente).filter(Cliente.id == cliente_id).first()
BuscarCliente(r) ==
    /\ pc[r] = "cliente"
    /\ IF args[r].cliente_id \in clientes
       THEN /\ pc' = [pc EXCEPT ![r] = "prefs"]
            /\ UNCHANGED <<pendientes, resultado>>
       ELSE Fallar(r, MsgCliente(args[r].cliente_id))
    /\ UNCHANGED <<bd, siembra, recomendaciones, args, loc, antes, sc>>

\* categoria_preferences = self._get_category_preferences(cliente_id)
Preferencias(r) ==
    /\ pc[r] = "prefs"
    /\ loc' = [loc EXCEPT ![r].categoria_preferences =
                  _get_category_preferences(args[r].cliente_id)]
    /\ pc' = [pc EXCEPT ![r] = "semilla"]
    /\ UNCHANGED <<bd, siembra, recomendaciones, args, pendientes, resultado, antes, sc>>

\* if producto_id: look the seed up, take its category and its affinities
Semilla(r) ==
    /\ pc[r] = "semilla"
    /\ IF TruthyInt(args[r].producto_id)
       THEN IF args[r].producto_id[1] \in DOMAIN productos
            THEN /\ loc' = [loc EXCEPT
                       ![r].categoria_actual =
                           productos[args[r].producto_id[1]].categoria,
                       ![r].bought_together_scores =
                           _get_frequently_bought_together(args[r].producto_id[1])]
                 /\ pc' = [pc EXCEPT ![r] = "candidatos"]
                 /\ UNCHANGED <<pendientes, resultado>>
            ELSE /\ Fallar(r, MsgProducto(args[r].producto_id[1]))
                 /\ UNCHANGED loc
       ELSE /\ pc' = [pc EXCEPT ![r] = "candidatos"]
            /\ UNCHANGED <<loc, pendientes, resultado>>
    /\ UNCHANGED <<bd, siembra, recomendaciones, args, antes, sc>>

\* productos = productos_query.all()
Enumerar(r) ==
    /\ pc[r] = "candidatos"
    /\ loc' = [loc EXCEPT ![r].productos = Candidatos(args[r].producto_id)]
    /\ pc' = [pc EXCEPT ![r] = "puntuar"]
    /\ UNCHANGED <<bd, siembra, recomendaciones, args, pendientes, resultado, antes, sc>>

\* the scoring loop over the candidates
Calcular(r) ==
    /\ pc[r] = "puntuar"
    /\ loc' = [loc EXCEPT ![r].recomendaciones =
                  Puntuar(loc[r].productos, loc[r].categoria_actual,
                          loc[r].categoria_preferences,
                          loc[r].bought_together_scores)]
    /\ pc' = [pc EXCEPT ![r] = "ordenar"]
    /\ UNCHANGED <<bd, siembra, recomendaciones, args, pendientes, resultado, antes, sc>>

\* recomendaciones.sort(...); recomendaciones = recomendaciones[:min(limit, MAX)]
Ordenar(r) ==
    /\ pc[r] = "ordenar"
    /\ loc' = [loc EXCEPT
          ![r].recomendaciones = Truncar(SortDesc(loc[r].recomendaciones), args[r].limit),
          ![r].i = 1]
    /\ pc' = [pc EXCEPT ![r] = "registrar"]
    /\ UNCHANGED <<bd, siembra, recomendaciones, args, pendientes, resultado, antes, sc>>

\* one turn of: for rec in recomendaciones: self.db.add(Recomendacion(...))
Registrar(r) ==
    /\ pc[r] = "registrar"
    /\ IF loc[r].i <= Len(loc[r].recomendaciones)
       THEN /\ pendientes' = [pendientes EXCEPT ![r] = Append(@,
                   NuevaRecomendacion(args[r].cliente_id,
                                      loc[r].recomendaciones[loc[r].i]))]
            /\ loc' = [loc EXCEPT ![r].i = @ + 1]
            /\ UNCHANGED pc
       ELSE /\ pc' = [pc EXCEPT ![r] = "commit"]
            /\ UNCHANGED <<loc, pendientes>>
    /\ UNCHANGED <<bd, siembra, recomendaciones, args, resultado, antes, sc>>

\* self.db.commit(); return recomendaciones
\* Mutant: the commit also counts every recommended product as sold once.
ProductosConVentas(r) ==
    [p \in DOMAIN productos |->
        IF \E i \in DOMAIN pendientes[r] : pendientes[r][i].producto_recomendado_id = p
        THEN [productos[p] EXCEPT !.ventas_ultimo_mes = @ + 1]
        ELSE productos[p]]

\* The session holds no modified Producto: the service only queries them, so
\* the flush of the commit writes nothing to productos.
ProductosTrasCommit(r) == productos

\* Mutant: the commit replaces the customer's earlier rows by the new ones.
TablaReemplazada(r) ==
    LET deOtros(row) == row.cliente_id # args[r].cliente_id
    IN  SelectSeq(recomendaciones, deOtros) \o pendientes[r]

\* The flush of the commit inserts the added rows after the existing ones.
TablaTrasCommit(r) == recomendaciones \o pendientes[r]

Commit(r) ==
    /\ pc[r] = "commit"
    /\ recomendaciones' = TablaTrasCommit(r)
    /\ productos' = ProductosTrasCommit(r)
    /\ pendientes' = [pendientes EXCEPT ![r] = <<>>]
    /\ resultado' = [resultado EXCEPT ![r] =
                        [tipo |-> "ok", lista |-> loc[r].recomendaciones, msg |-> <<>>]]
    /\ pc' = [pc EXCEPT ![r] = "done"]
    /\ UNCHANGED <<orden, clientes, ventas, detalles, usuarios, siembra, args, loc, antes, sc>>

\* A query, an add or the commit raises (the database is unreachable, the
\* transaction is aborted), or the scoring loop raises (ventas_ultimo_mes is
\* a nullable column, None > 0 is a TypeError): the except branch rolls back
\* and re-raises.
PasosBD == {"cliente", "prefs", "semilla", "candidatos", "registrar", "commit"}

Excepcion(r) ==
    /\ pc[r] \in PasosBD \cup {"puntuar"}
    /\ Fallar(r, IF pc[r] = "puntuar" THEN MsgTipo ELSE MsgBD)
    /\ UNCHANGED <<bd, siembra, recomendaciones, args, loc, antes, sc>>

\* The caller has the result; the request slot is free again.
Retornar(r) ==
    /\ pc[r] \in {"done", "error"}
    /\ pc' = [pc EXCEPT ![r] = "idle"]
    /\ args' = [args EXCEPT ![r] = ArgsInicial]
    /\ loc' = [loc EXCEPT ![r] = LocInicial]
    /\ resultado' = [resultado EXCEPT ![r] = SinResultado]
    /\ antes' = [antes EXCEPT ![r] = <<>>]
    /\ UNCHANGED <<bd, siembra, recomendaciones, pendientes, sc>>

\* @router.post("/"): ValueError -> 400 with the message, anything else -> 500
obtener_recomendaciones(res) ==
    IF res.tipo = "ok" THEN [status |-> 200, detail |-> <<>>]
    ELSE IF res.tipo = "ValueError" THEN [status |-> 400, detail |-> res.msg]
    ELSE [status |-> 500, detail |-> <<"Error interno del servidor">>]

Next ==
    \E r \in Secuencial :
        \/ Llamar(r)
        \/ BuscarCliente(r)
        \/ Preferencias(r)
        \/ Semilla(r)
        \/ Enumerar(r)
        \/ Calcular(r)
        \/ Ordenar(r)
        \/ Registrar(r)
        \/ Commit(r)
        \/ Excepcion(r)
        \/ Retornar(r)

Spec == Init /\ [][Next]_vars

\* ------------------------------- _calculate_recommendation_score, directly
\* The function is called on its own (as the unit test does) with inputs
\* drawn from the sets below; the tables play no part.
ValoresDict == {0 - ONE, 0, ONE \div 2, ONE, 2 * ONE}

Dicts(claves) ==
    UNION {[D -> ValoresDict] : D \in SUBSET claves}

ScProductos ==
    [id : {1, 2},
     categoria : {"A", "B", "", NULL},
     ventas_ultimo_mes : {-5, 0, 1, 50, 100, 250}]

ScEntradas ==
    [usado : {FALSE},
     producto : ScProductos,
     categoria_actual : {NULL, "", "A", "B"},
     categoria_preferences : Dicts({"A", NULL}),
     bought_together_scores : Dicts({1})]

InitScore ==
    /\ productos = [p \in ProdIds |-> ProductoFijo(p, TRUE)]
    /\ orden = Rango(1, NProd)
    /\ clientes = ClienteIds
    /\ ventas = <<>>
    /\ detalles = <<>>
    /\ recomendaciones = <<>>
    /\ InitPeticiones
    /\ InitOtros
    /\ sc_in \in ScEntradas
    /\ sc_out = 0

AplicarScore ==
    /\ ~sc_in.usado
    /\ sc_out' = _calculate_recommendation_score(
                     sc_in.producto, sc_in.categoria_actual,
                     sc_in.categoria_preferences, sc_in.bought_together_scores)
    /\ sc_in' = [sc_in EXCEPT !.usado = TRUE]
    /\ UNCHANGED <<bd, siembra, recomendaciones, pc, args, loc, pendientes, resultado, antes>>

NextScore == AplicarScore

SpecScore == InitScore /\ [][NextScore]_vars

\* ---------------------- the query helpers of the service, called directly
\* _get_client_purchase_history, _get_category_preferences and
\* _get_frequently_bought_together are applied to sales histories of up to
\* HMaxVentas sales; products 1 and 4 share a category, product 3 has another.
ItemsPosibles == {<<1>>, <<3>>, <<1, 3>>, <<1, 1, 4>>, <<3, 4, 4>>, <<1, 3, 4>>}

Historias ==
    UNION {[1..n -> [cliente_id : ClienteIds, items : ItemsPosibles]] : n \in 0..HMaxVentas}

RECURSIVE Lineas(_, _)
Lineas(h, k) ==
    IF k > Len(h) THEN <<>>
    ELSE [i \in 1..Len(h[k].items) |->
            [venta_id |-> k, producto_id |-> h[k].items[i], cantidad |-> 1]]
         \o Lineas(h, k + 1)

VentasH(h) == [k \in 1..Len(h) |-> [id |-> k, cliente_id |-> h[k].cliente_id]]

SemillaArgs == {1, 2, 3, 4}

InitHist ==
    /\ productos = [p \in ProdIds |-> ProductoFijo(p, TRUE)]
    /\ orden = Rango(1, NProd)
    /\ clientes = ClienteIds
    /\ \E h \in Historias :
          /\ ventas = VentasH(h)
          /\ detalles = Lineas(h, 1)
    /\ recomendaciones = <<>>
    /\ InitPeticiones
    /\ InitOtros
    /\ sc_in = ScInicial
    /\ sc_out = 0

LlamarHistorial ==
    /\ ~sc_in.usado
    /\ \E c \in ClienteArgs :
          /\ sc_in' = [usado |-> TRUE, fn |-> "history", arg |-> c]
          /\ sc_out' = _get_client_purchase_history(c)
    /\ UNCHANGED <<bd, siembra, recomendaciones, pc, args, loc, pendientes, resultado, antes>>

LlamarPreferencias ==
    /\ ~sc_in.usado
    /\ \E c \in ClienteArgs :
          /\ sc_in' = [usado |-> TRUE, fn |-> "prefs", arg |-> c]
          /\ sc_out' = _get_category_preferences(c)
    /\ UNCHANGED <<bd, siembra, recomendaciones, pc, args, loc, pendientes, resultado, antes>>

LlamarCompradosJuntos ==
    /\ ~sc_in.usado
    /\ \E p \in SemillaArgs :
          /\ sc_in' = [usado |-> TRUE, fn |-> "bt", arg |-> p]
          /\ sc_out' = _get_frequently_bought_together(p)
    /\ UNCHANGED <<bd, siembra, recomendaciones, pc, args, loc, pendientes, resultado, antes>>

NextHist ==
    \/ LlamarHistorial
    \/ LlamarPreferencias
    \/ LlamarCompradosJuntos

SpecHist == InitHist /\ [][NextHist]_vars

\* ---------------------------------------------------------------------------
\* Two requests in flight at once, one per customer, each on its own session
\* (its own pending rows), over tables that no one else changes.
ClienteDe == [r \in Peticiones |-> IF r = "r1" THEN 1 ELSE 2]
ProductoConc == {None, Some(1), Some(NProd + 1)}
LimitConc == {1, 2}

InitConc ==
    /\ productos \in Catalogos
    /\ orden \in Ordenes
    /\ clientes = ClienteIds
    /\ ventas = VentasDe(Len(Plantillas))
    /\ detalles = DetallesDe(Len(Plantillas), 1)
    /\ recomendaciones = <<>>
    /\ InitPeticiones
    /\ InitOtros
    /\ sc_in = ScInicial
    /\ sc_out = 0

LlamarConc(r) == LlamarCon(r, {ClienteDe[r]}, ProductoConc, LimitConc)

NextConc ==
    \E r \in Peticiones :
        \/ LlamarConc(r)
        \/ BuscarCliente(r)
        \/ Preferencias(r)
        \/ Semilla(r)
        \/ Enumerar(r)
        \/ Calcular(r)
        \/ Ordenar(r)
        \/ Registrar(r)
        \/ Commit(r)
        \/ Excepcion(r)

SpecConc == InitConc /\ [][NextConc]_vars

\* ---------------------------------------------------------------------------
\* Sale processing: POST /ventas (create_venta), one step per query, loop
\* turn and commit, on the session of the request.  The session keeps the
\* Producto objects it has loaded (loc[r].sesion): a second query for the
\* same id returns the loaded object with its pending changes, and the
\* commit writes the values the session holds.
Linea(p, q) == [producto_id |-> p, cantidad |-> q, precio_unitario |-> 100]
DetallesPedido ==
    { <<Linea(1, 2)>>,
      <<Linea(1, 2), Linea(1, 2)>>,
      <<Linea(1, 3), Linea(2, 1)>>,
      <<Linea(1, 3), Linea(2, 0 - 1)>>,
      <<Linea(2, 2)>>,
      <<Linea(1, 1), Linea(NProd + 1, 1)>> }
TotalesPedido == {200, 400}
ClientesPedido == {1, 99}
VentaCreate ==
    [cliente_id : ClientesPedido, total : TotalesPedido, detalles_venta : DetallesPedido]

HTTPException(status_code, detail) ==
    [tipo |-> "HTTPException", status |-> status_code, msg |-> detail]

\* db.query(ProductoModel).filter(ProductoModel.id == id).first()
Cargar(r, id) ==
    IF id \in DOMAIN loc[r].sesion THEN loc[r].sesion[id]
    ELSE [stock |-> productos[id].stock,
          ventas_ultimo_mes |-> productos[id].ventas_ultimo_mes]

\* Mutant: the commit writes the stock but not the sales count.
ProductosSoloStock(r) ==
    [p \in DOMAIN productos |->
        IF p \in DOMAIN loc[r].sesion
        THEN [productos[p] EXCEPT !.stock = loc[r].sesion[p].stock]
        ELSE productos[p]]

\* The UPDATE statements of the commit: the values held by the session.
ProductosTrasVenta(r) ==
    [p \in DOMAIN productos |->
        IF p \in DOMAIN loc[r].sesion
        THEN [productos[p] EXCEPT
                !.stock = loc[r].sesion[p].stock,
                !.ventas_ultimo_mes = loc[r].sesion[p].ventas_ultimo_mes]
        ELSE productos[p]]

\* A sale request arrives.
CrearVenta(r) ==
    /\ pc[r] = "idle"
    /\ Len(ventas) < VMaxVentas
    /\ \E v \in VentaCreate : args' = [args EXCEPT ![r] = v]
    /\ pc' = [pc EXCEPT ![r] = "v_cliente"]
    /\ UNCHANGED <<bd, siembra, recomendaciones, loc, pendientes, resultado, antes, sc>>

\* lines 34-46: the customer lookup, the Venta object, the flush
VCliente(r) ==
    /\ pc[r] = "v_cliente"
    /\ IF args[r].cliente_id \in clientes
       THEN /\ loc' = [loc EXCEPT ![r] =
                         [i |-> 1, sesion |-> EmptyDict, total_calculado |-> 0,
                          nuevos |-> <<>>]]
            /\ pc' = [pc EXCEPT ![r] = "v_detalle"]
            /\ UNCHANGED resultado
       ELSE /\ resultado' = [resultado EXCEPT ![r] =
                                HTTPException(404, <<"Cliente no encontrado">>)]
            /\ pc' = [pc EXCEPT ![r] = "error"]
            /\ UNCHANGED loc
    /\ UNCHANGED <<bd, siembra, recomendaciones, args, pendientes, antes, sc>>

\* lines 50-79: one turn of the loop over venta.detalles_venta
VDetalle(r) ==
    /\ pc[r] = "v_detalle"
    /\ IF loc[r].i > Len(args[r].detalles_venta)
       THEN /\ pc' = [pc EXCEPT ![r] = "v_total"]
            /\ UNCHANGED <<loc, resultado>>
       ELSE LET detalle == args[r].detalles_venta[loc[r].i]
            IN  IF detalle.producto_id \notin DOMAIN productos
                THEN /\ resultado' = [resultado EXCEPT ![r] = HTTPException(404,
                            <<"Producto ", detalle.producto_id, " no encontrado">>)]
                     /\ pc' = [pc EXCEPT ![r] = "error"]
                     /\ UNCHANGED loc
                ELSE LET producto == Cargar(r, detalle.producto_id)
                     IN  IF producto.stock < detalle.cantidad
                         THEN /\ resultado' = [resultado EXCEPT ![r] = HTTPException(400,
                                     <<"Stock insuficiente para el producto ",
                                       detalle.producto_id>>)]
                              /\ pc' = [pc EXCEPT ![r] = "error"]
                              /\ UNCHANGED loc
                         ELSE /\ loc' = [loc EXCEPT
                                    ![r].i = @ + 1,
                                    ![r].total_calculado =
                                        @ + detalle.cantidad * detalle.precio_unitario,
                                    ![r].nuevos = Append(@,
                                        [producto_id |-> detalle.producto_id,
                                         cantidad |-> detalle.cantidad]),
                                    ![r].sesion =
                                        [q \in DOMAIN loc[r].sesion \cup {detalle.producto_id} |->
                                            IF q = detalle.producto_id
                                            THEN [stock |-> producto.stock - detalle.cantidad,
                                                  ventas_ultimo_mes |->
                                                      producto.ventas_ultimo_mes + detalle.cantidad]
                                            ELSE loc[r].sesion[q]]]
                              /\ UNCHANGED <<pc, resultado>>
    /\ UNCHANGED <<bd, siembra, recomendaciones, args, pendientes, antes, sc>>

\* lines 82-87: the total of the request against the computed total
VTotal(r) ==
    /\ pc[r] = "v_total"
    /\ IF loc[r].total_calculado # args[r].total
       THEN /\ resultado' = [resultado EXCEPT ![r] = HTTPException(400,
                   <<"El total proporcionado no coincide con el calculado">>)]
            /\ pc' = [pc EXCEPT ![r] = "error"]
       ELSE /\ pc' = [pc EXCEPT ![r] = "v_commit"]
            /\ UNCHANGED resultado
    /\ UNCHANGED <<bd, siembra, recomendaciones, args, loc, pendientes, antes, sc>>

\* lines 89-92: db.commit() writes the Venta, its DetalleVenta rows and the
\* changed Producto rows
VCommit(r) ==
    /\ pc[r] = "v_commit"
    /\ productos' = ProductosTrasVenta(r)
    /\ ventas' = Append(ventas, [id |-> Len(ventas) + 1, cliente_id |-> args[r].cliente_id])
    /\ detalles' = detalles \o
          [k \in DOMAIN loc[r].nuevos |->
              [venta_id |-> Len(ventas) + 1,
               producto_id |-> loc[r].nuevos[k].producto_id,
               cantidad |-> loc[r].nuevos[k].cantidad]]
    /\ resultado' = [resultado EXCEPT ![r] =
                        [tipo |-> "ok", status |-> 200, msg |-> <<>>]]
    /\ pc' = [pc EXCEPT ![r] = "done"]
    /\ UNCHANGED <<orden, clientes, usuarios, siembra, recomendaciones, args, loc,
                   pendientes, antes, sc>>

\* A query or the commit raises: the commit's exception is answered with 400
\* after a rollback (lines 93-95), any other leaves the handler (500) and the
\* session is closed without a commit.
VExcepcion(r) ==
    /\ pc[r] \in {"v_cliente", "v_detalle", "v_commit"}
    /\ resultado' = [resultado EXCEPT ![r] =
          HTTPException(IF pc[r] = "v_commit" THEN 400 ELSE 500, MsgBD)]
    /\ pc' = [pc EXCEPT ![r] = "error"]
    /\ UNCHANGED <<bd, siembra, recomendaciones, args, loc, pendientes, antes, sc>>

\* Producto.registrar_venta of the Django model: the instance is checked,
\* changed and saved, or ValueError is raised.
registrar_venta(self, cantidad) ==
    IF self.stock >= cantidad
    THEN [raised |-> FALSE,
          self |-> [self EXCEPT !.stock = @ - cantidad,
                                !.ventas_ultimo_mes = @ + cantidad]]
    ELSE [raised |-> TRUE, self |-> self]

CantidadesDjango == {2, 11}
RegistrarVenta ==
    /\ \A r \in Peticiones : pc[r] = "idle"
    /\ \E p \in 1..NLibres, cantidad \in CantidadesDjango :
          /\ ~registrar_venta(productos[p], cantidad).raised
          /\ productos' = [productos EXCEPT ![p] = registrar_venta(@, cantidad).self]
    /\ UNCHANGED <<orden, clientes, ventas, detalles, usuarios, siembra, recomendaciones,
                   pc, args, loc, pendientes, resultado, antes, sc>>

InitVentas ==
    /\ productos \in Catalogos
    /\ orden = Rango(1, NProd)
    /\ clientes = ClienteIds
    /\ ventas = <<>>
    /\ detalles = <<>>
    /\ recomendaciones = <<>>
    /\ InitPeticiones
    /\ InitOtros
    /\ sc_in = ScInicial
    /\ sc_out = 0

NextVentas ==
    \/ \E r \in Secuencial :
          \/ CrearVenta(r)
          \/ VCliente(r)
          \/ VDetalle(r)
          \/ VTotal(r)
          \/ VCommit(r)
          \/ VExcepcion(r)
          \/ Retornar(r)
    \/ RegistrarVenta

SpecVentas == InitVentas /\ [][NextVentas]_vars

\* Two sale requests in flight at once, each on its own session.
NextVentasConc ==
    \E r \in Peticiones :
        \/ CrearVenta(r)
        \/ VCliente(r)
        \/ VDetalle(r)
        \/ VTotal(r)
        \/ VCommit(r)
        \/ VExcepcion(r)

SpecVentasConc == InitVentas /\ [][NextVentasConc]_vars

\* A recommendation request (r1) in flight together with a sale request (r2).
InitMixto ==
    /\ productos \in Catalogos
    /\ orden \in Ordenes
    /\ clientes = ClienteIds
    /\ ventas = VentasDe(1)
    /\ detalles = DetallesDe(1, 1)
    /\ recomendaciones = <<>>
    /\ InitPeticiones
    /\ InitOtros
    /\ sc_in = ScInicial
    /\ sc_out = 0

LlamarMixto == LlamarCon("r1", {1}, {None, Some(2)}, {2, NProd})

NextMixto ==
    \/ LlamarMixto
    \/ BuscarCliente("r1")
    \/ Preferencias("r1")
    \/ Semilla("r1")
    \/ Enumerar("r1")
    \/ Calcular("r1")
    \/ Ordenar("r1")
    \/ Registrar("r1")
    \/ Commit("r1")
    \/ Excepcion("r1")
    \/ CrearVenta("r2")
    \/ VCliente("r2")
    \/ VDetalle("r2")
    \/ VTotal("r2")
    \/ VCommit("r2")
    \/ VExcepcion("r2")

SpecMixto == InitMixto /\ [][NextMixto]_vars

\* ---------------------------------------------------------------------------
\* POST /auth/register (register_user), one step per query and the commit,
\* two requests in flight.  The usuarios table has a unique index on
\* username and one on email.
Emails == {"a@x", "b@x"}
Usernames == {"ana", "ben"}
UserRegister == [email : Emails, username : Usernames]

RegisterUser(r) ==
    /\ pc[r] = "idle"
    /\ \E user_in \in UserRegister : args' = [args EXCEPT ![r] = user_in]
    /\ pc' = [pc EXCEPT ![r] = "a_email"]
    /\ UNCHANGED <<bd, siembra, recomendaciones, loc, pendientes, resultado, antes, sc>>

\* if db.query(Usuario).filter(Usuario.email == user_in.email).first(): 400
AEmail(r) ==
    /\ pc[r] = "a_email"
    /\ IF \E i \in DOMAIN usuarios : usuarios[i].email = args[r].email
       THEN /\ resultado' = [resultado EXCEPT ![r] =
                   [tipo |-> "HTTPException", status |-> 400,
                    msg |-> <<"Este email ya está registrado">>, causa |-> "email"]]
            /\ pc' = [pc EXCEPT ![r] = "error"]
       ELSE /\ pc' = [pc EXCEPT ![r] = "a_username"]
            /\ UNCHANGED resultado
    /\ UNCHANGED <<bd, siembra, recomendaciones, args, loc, pendientes, antes, sc>>

\* if db.query(Usuario).filter(Usuario.username == user_in.username).first(): 400
AUsername(r) ==
    /\ pc[r] = "a_username"
    /\ IF \E i \in DOMAIN usuarios : usuarios[i].username = args[r].username
       THEN /\ resultado' = [resultado EXCEPT ![r] =
                   [tipo |-> "HTTPException", status |-> 400,
                    msg |-> <<"Este nombre de usuario ya está registrado">>,
                    causa |-> "username"]]
            /\ pc' = [pc EXCEPT ![r] = "error"]
       ELSE /\ pc' = [pc EXCEPT ![r] = "a_commit"]
            /\ UNCHANGED resultado
    /\ UNCHANGED <<bd, siembra, recomendaciones, args, loc, pendientes, antes, sc>>

\* The unique indexes of usuarios (Column(..., unique=True)): the INSERT of
\* the commit raises IntegrityError on a stored username or email.
ViolaUnico(user) ==
    \E i \in DOMAIN usuarios :
        usuarios[i].email = user.email \/ usuarios[i].username = user.username

\* db.add(user); db.commit(); an exception is answered with 500 after a
\* rollback (lines 74-80)
ACommit(r) ==
    /\ pc[r] = "a_commit"
    /\ IF ViolaUnico(args[r])
       THEN /\ resultado' = [resultado EXCEPT ![r] =
                   [tipo |-> "HTTPException", status |-> 500,
                    msg |-> <<"Error interno del servidor al registrar usuario">>,
                    causa |-> "IntegrityError"]]
            /\ pc' = [pc EXCEPT ![r] = "error"]
            /\ UNCHANGED usuarios
       ELSE /\ usuarios' = Append(usuarios,
                   [username |-> args[r].username, email |-> args[r].email])
            /\ resultado' = [resultado EXCEPT ![r] =
                   [tipo |-> "ok", status |-> 201, msg |-> <<>>, causa |-> "ok"]]
            /\ pc' = [pc EXCEPT ![r] = "done"]
    /\ UNCHANGED <<productos, orden, clientes, ventas, detalles, siembra, recomendaciones,
                   args, loc, pendientes, antes, sc>>

\* The database is unreachable at a query or at the commit: 500.
AExcepcion(r) ==
    /\ pc[r] \in {"a_email", "a_username", "a_commit"}
    /\ resultado' = [resultado EXCEPT ![r] =
           [tipo |-> "HTTPException", status |-> 500,
            msg |-> <<"Error interno del servidor al registrar usuario">>,
            causa |-> "OperationalError"]]
    /\ pc' = [pc EXCEPT ![r] = "error"]
    /\ UNCHANGED <<bd, siembra, recomendaciones, args, loc, pendientes, antes, sc>>

NextAuth ==
    \E r \in Peticiones :
        \/ RegisterUser(r)
        \/ AEmail(r)
        \/ AUsername(r)
        \/ ACommit(r)
        \/ AExcepcion(r)
        \/ Retornar(r)

SpecAuth == InitVentas /\ [][NextAuth]_vars

\* ---------------------------------------------------------------------------
\* POST /seed (seed_database), its background task (seed_task) and
\* GET /seed/status.  The handler has no await: it runs in one step; the
\* task starts after the response has been sent and awaits inside
\* seeder.seed_data.
has_data == usuarios # <<>>

\* seed_database, lines 34-68
seed_database(t) ==
    /\ tareas[t] = "none"
    /\ \E force \in BOOLEAN :
          tareas' = [tareas EXCEPT ![t] =
              IF is_seeding THEN "ya_en_ejecucion"
              ELSE IF ~force /\ has_data THEN "ya_contiene_datos"
              ELSE "iniciado"]
    /\ UNCHANGED <<bd, recomendaciones, pc, args, loc, pendientes, resultado, antes, sc,
                   is_seeding>>

\* seed_task up to its first await: is_seeding = True (line 46)
seed_task(t) ==
    /\ tareas[t] = "iniciado"
    /\ tareas' = [tareas EXCEPT ![t] = "corriendo"]
    /\ is_seeding' = TRUE
    /\ UNCHANGED <<bd, recomendaciones, pc, args, loc, pendientes, resultado, antes, sc>>

\* seed_data returns or raises; finally: is_seeding = False (line 57)
seed_task_fin(t) ==
    /\ tareas[t] = "corriendo"
    /\ \E exito \in BOOLEAN :
          /\ tareas' = [tareas EXCEPT ![t] = IF exito THEN "completado" ELSE "fallido"]
          /\ usuarios' = IF exito /\ usuarios = <<>>
                         THEN <<[username |-> "seed", email |-> "seed@x"]>>
                         ELSE usuarios
    /\ is_seeding' = FALSE
    /\ UNCHANGED <<productos, orden, clientes, ventas, detalles, recomendaciones, pc, args,
                   loc, pendientes, resultado, antes, sc>>

\* GET /seed/status
get_seed_status == [is_running |-> is_seeding]

NextSeed ==
    \E t \in SeedReqs :
        \/ seed_database(t)
        \/ seed_task(t)
        \/ seed_task_fin(t)

SpecSeed == InitVentas /\ [][NextSeed]_vars

\* ================================================================= claims
Ids(s) == {s[i].producto_id : i \in DOMAIN s}
Elegibles(producto_id) ==
    {p \in DOMAIN productos :
        /\ productos[p].stock > 0
        /\ (producto_id # None => p # producto_id[1])}
\* The rows the call of request r has added to the table so far.
Agregadas(r) == SubSeq(recomendaciones, Len(antes[r]) + 1, Len(recomendaciones))
Prefijo(a, b) == Len(a) <= Len(b) /\ SubSeq(b, 1, Len(a)) = a
RespondioBD(r) ==
    resultado[r].msg \notin {<<"Error generando recomendaciones: ", "OperationalError">>,
                             <<"Error generando recomendaciones: ", "TypeError">>}

\* C1: for every candidate product, seed category, preference mapping and
\* affinity mapping, _calculate_recommendation_score returns a score s with
\* 0.1 <= s <= 1.0.  Checked under SpecScore.
C1_ScoreEnRango ==
    sc_in.usado => (MIN_SCORE <= sc_out /\ sc_out <= ONE)

\* C1 witness: a product with negative recent sales and no category or
\* affinity signal is scored at the floor.
C1_Witness ==
    /\ sc_in.usado
    /\ sc_in.producto.ventas_ultimo_mes < 0
    /\ sc_in.categoria_preferences = EmptyDict
    /\ sc_out = MIN_SCORE

\* C1, the consequence for the service: every score in a returned list, in a
\* pending row and in a committed row lies in [0.1, 1.0].  Holds under Spec.
ScoresDelServicioEnRango ==
    /\ \A r \in Peticiones :
          /\ \A i \in DOMAIN resultado[r].lista :
                MIN_SCORE <= resultado[r].lista[i].score /\ resultado[r].lista[i].score <= ONE
          /\ \A i \in DOMAIN pendientes[r] :
                MIN_SCORE <= pendientes[r][i].score /\ pendientes[r][i].score <= ONE
    /\ \A i \in DOMAIN recomendaciones :
          MIN_SCORE <= recomendaciones[i].score /\ recomendaciones[i].score <= ONE

\* C2 (as claimed): a successful call returns exactly
\* min(limit, 10, number of eligible candidates) items, never more than limit
\* and never more than MAX_RECOMMENDATIONS, for every integer limit.
C2_ExactamenteMin ==
    \A r \in Peticiones :
        resultado[r].tipo = "ok" =>
            /\ Len(resultado[r].lista) =
                   Min(Min(args[r].limit, 10), Cardinality(Elegibles(args[r].producto_id)))
            /\ Len(resultado[r].lista) <= args[r].limit
            /\ Len(resultado[r].lista) <= 10

\* C3: the list returned by a successful call is sorted non-increasing by score.
C3_Ordenada ==
    \A r \in Peticiones :
        resultado[r].tipo = "ok" =>
            \A i \in 1..(Len(resultado[r].lista) - 1) :
                resultado[r].lista[i].score >= resultado[r].lista[i + 1].score

\* C3 witness: a returned list of three or more items whose first score is
\* strictly above its last, from candidates that were not enumerated in
\* that order.
C3_Witness ==
    \E r \in Peticiones :
        /\ resultado[r].tipo = "ok"
        /\ Len(resultado[r].lista) >= 3
        /\ resultado[r].lista[1].score > resultado[r].lista[Len(resultado[r].lista)].score
        /\ \E i \in 1..(Len(loc[r].productos) - 1) :
              _calculate_recommendation_score(loc[r].productos[i],
                  loc[r].categoria_actual, loc[r].categoria_preferences,
                  loc[r].bought_together_scores)
              < _calculate_recommendation_score(loc[r].productos[i + 1],
                  loc[r].categoria_actual, loc[r].categoria_preferences,
                  loc[r].bought_together_scores)

\* C4: a successful call adds exactly one row per returned item and no
\* others, in the order of the list, each with the call's cliente_id, the
\* item's producto_id and score, and efectiva = FALSE.
C4_UnaFilaPorItem ==
    \A r \in Peticiones :
        pc[r] = "done" =>
            /\ Prefijo(antes[r], recomendaciones)
            /\ Agregadas(r) =
                  [i \in 1..Len(resultado[r].lista) |->
                      [cliente_id |-> args[r].cliente_id,
                       producto_recomendado_id |-> resultado[r].lista[i].producto_id,
                       score |-> resultado[r].lista[i].score,
                       efectiva |-> FALSE]]

\* C4 witness: a second successful call, on a table that already holds a
\* row, has returned two items.
C4_Witness ==
    \E r \in Peticiones :
        /\ pc[r] = "done"
        /\ Len(antes[r]) = 1
        /\ Len(resultado[r].lista) = 2

\* C5: a call whose cliente_id matches no customer raises an error whose
\* message contains 'Cliente <id> no encontrado' (once the lookup has been
\* answered by the database), returns no list and persists no row.
C5_ClienteInexistente ==
    \A r \in Peticiones :
        (pc[r] \notin {"idle", "cliente"} /\ args[r].cliente_id \notin clientes) =>
            /\ pc[r] = "error"
            /\ resultado[r].tipo = "ValueError"
            /\ resultado[r].lista = <<>>
            /\ recomendaciones = antes[r]
            /\ pendientes[r] = <<>>
            /\ RespondioBD(r) =>
                  Contiene(resultado[r].msg,
                           <<"Cliente ", args[r].cliente_id, " no encontrado">>)

\* C5 witness: the call for customer 99 has failed on the lookup's answer.
C5_Witness ==
    \E r \in Peticiones :
        /\ pc[r] = "error"
        /\ args[r].cliente_id = 99
        /\ RespondioBD(r)

\* C6 (as claimed): a missing customer or seed product surfaces directly and
\* unwrapped, never as the generic 'recommendation generation failed' error.
C6_NotFoundSinEnvolver ==
    \A r \in Peticiones :
        (/\ resultado[r].tipo = "ValueError"
         /\ \/ Contiene(resultado[r].msg,
                        <<"Cliente ", args[r].cliente_id, " no encontrado">>)
            \/ /\ args[r].producto_id # None
               /\ Contiene(resultado[r].msg,
                           <<"Producto ", args[r].producto_id[1], " no encontrado">>))
        => resultado[r].msg[1] # "Error generando recomendaciones: "

\* C7 (as claimed): whenever a seed product id is supplied for an existing
\* customer and no product has that id, the call fails with a
\* product-not-found error and persists no row, for every integer id.
C7_SemillaInexistente ==
    \A r \in Peticiones :
        (/\ pc[r] \notin {"idle", "cliente", "prefs", "semilla"}
         /\ args[r].cliente_id \in clientes
         /\ args[r].producto_id # None
         /\ args[r].producto_id[1] \notin DOMAIN productos) =>
            /\ pc[r] = "error"
            /\ recomendaciones = antes[r]
            /\ RespondioBD(r) =>
                  Contiene(resultado[r].msg,
                           <<"Producto ", args[r].producto_id[1], " no encontrado">>)

\* C8: the call is all-or-nothing: while it runs and when it has ended in an
\* error the committed rows are those from before the call; after an error
\* no list is returned and no row is left in the session.
C8_TodoONada ==
    \A r \in Peticiones :
        /\ pc[r] \notin {"idle", "done"} => recomendaciones = antes[r]
        /\ pc[r] = "error" =>
              /\ resultado[r].lista = <<>>
              /\ resultado[r].tipo = "ValueError"
              /\ pendientes[r] = <<>>

\* C8 witness: the call failed after it had added two or more rows to the
\* session (an add or the commit raised).
C8_Witness ==
    \E r \in Peticiones :
        /\ pc[r] = "error"
        /\ loc[r].i >= 3
        /\ Len(loc[r].recomendaciones) >= 2

\* C9: every returned item and every row the call adds refers to a product
\* with stock > 0 other than the supplied seed; conversely every such
\* product is enumerated and scored as a candidate.
C9_Candidatos ==
    \A r \in Peticiones :
        /\ pc[r] \in {"puntuar", "ordenar", "registrar", "commit", "done"} =>
              {loc[r].productos[i].id : i \in DOMAIN loc[r].productos}
                  = Elegibles(args[r].producto_id)
        /\ pc[r] = "ordenar" =>
              Ids(loc[r].recomendaciones) = Elegibles(args[r].producto_id)
        /\ Ids(resultado[r].lista) \subseteq Elegibles(args[r].producto_id)
        /\ \A i \in DOMAIN pendientes[r] :
              pendientes[r][i].producto_recomendado_id \in Elegibles(args[r].producto_id)
        /\ pc[r] = "done" =>
              \A i \in DOMAIN Agregadas(r) :
                  Agregadas(r)[i].producto_recomendado_id \in Elegibles(args[r].producto_id)

\* C9 witness: a call with seed product 1, in stock, has returned a
\* non-empty list while some other product is out of stock.
C9_Witness ==
    \E r \in Peticiones :
        /\ pc[r] = "done"
        /\ args[r].producto_id = Some(1)
        /\ productos[1].stock > 0
        /\ \E p \in DOMAIN productos : productos[p].stock = 0
        /\ resultado[r].lista # <<>>

\* C10: no product id appears twice in the list a call returns, nor in the
\* rows that call persists.
C10_SinRepetidos ==
    \A r \in Peticiones :
        /\ \A i, j \in DOMAIN resultado[r].lista :
              i # j => resultado[r].lista[i].producto_id # resultado[r].lista[j].producto_id
        /\ pc[r] = "done" =>
              \A i, j \in DOMAIN Agregadas(r) :
                  i # j => Agregadas(r)[i].producto_recomendado_id
                             # Agregadas(r)[j].producto_recomendado_id

\* C10 witness: a successful call that returned ten items.
C10_Witness ==
    \E r \in Peticiones :
        /\ pc[r] = "done"
        /\ Len(resultado[r].lista) = MAX_RECOMMENDATIONS

\* ---- helpers of the claims about the query helpers (from the tables alone)
\* The products customer c has bought, with their categories.
Comprados(c) ==
    {<<p, productos[p].categoria>> : p \in
        {q \in DOMAIN productos :
            \E i \in DOMAIN detalles :
                /\ detalles[i].producto_id = q
                /\ \E k \in DOMAIN ventas :
                      ventas[k].id = detalles[i].venta_id /\ ventas[k].cliente_id = c}}

RECURSIVE SumaDict(_)
SumaDict(f) ==
    IF DOMAIN f = {} THEN 0
    ELSE LET k == CHOOSE x \in DOMAIN f : TRUE
         IN  f[k] + SumaDict([x \in DOMAIN f \ {k} |-> f[x]])

\* The products other than seed that share a sale with it.
Acompanantes(seed) ==
    {detalles[j].producto_id : j \in
        {j \in DOMAIN detalles :
            /\ detalles[j].producto_id # seed
            /\ \E i \in DOMAIN detalles :
                  /\ detalles[i].producto_id = seed
                  /\ detalles[i].venta_id = detalles[j].venta_id}}

C16_Afinidades ==
    (sc_in.usado /\ sc_in.fn = "bt") =>
        IF Acompanantes(sc_in.arg) = {} THEN DOMAIN sc_out = {}
        ELSE /\ DOMAIN sc_out # {}
             /\ \A p \in DOMAIN sc_out : 0 < sc_out[p] /\ sc_out[p] <= ONE
             /\ \E p \in DOMAIN sc_out : sc_out[p] = ONE
             /\ sc_in.arg \notin DOMAIN sc_out

\* C16 witness: two related products with different affinities.
C16_Witness ==
    /\ sc_in.usado /\ sc_in.fn = "bt"
    /\ \E p, q \in DOMAIN sc_out : sc_out[p] < sc_out[q]

\* C17: _get_client_purchase_history(c) returns exactly the (product id,
\* category) pairs of the products in a line item of a sale of customer c,
\* each pair once; an empty history gives an empty result.
\* Checked under SpecHist.
C17_Historial ==
    (sc_in.usado /\ sc_in.fn = "history") =>
        /\ {sc_out[i] : i \in DOMAIN sc_out} = Comprados(sc_in.arg)
        /\ Len(sc_out) = Cardinality(Comprados(sc_in.arg))

\* C17 witness: the customer bought a product in two line items and the
\* other customer bought a product this one did not.
C17_Witness ==
    /\ sc_in.usado /\ sc_in.fn = "history"
    /\ Len(sc_out) >= 2
    /\ \E i, j \in DOMAIN detalles :
          /\ i # j
          /\ detalles[i].producto_id = detalles[j].producto_id
          /\ <<detalles[i].producto_id, productos[detalles[i].producto_id].categoria>>
                \in Comprados(sc_in.arg)
    /\ \E c \in ClienteIds : Comprados(c) \ Comprados(sc_in.arg) # {}

\* ---- helpers of the claims about the score (written from the rules, in
\* the units of the model: 0.4 is 4 * ONE / 10)
RefVentas(v) ==
    LET x == (v * ONE) \div 100
    IN  (3 * (IF x <= ONE THEN x ELSE ONE)) \div 10
RefAfinidad(id, bts) == IF id \in DOMAIN bts THEN (3 * bts[id]) \div 10 ELSE 0
RefPreferencia(cat, prefs) == IF cat \in DOMAIN prefs THEN (4 * prefs[cat]) \div 10 ELSE 0
RefClamp(x) == IF x < ONE \div 10 THEN ONE \div 10 ELSE IF x > ONE THEN ONE ELSE x
EnUnidad(f) == \A k \in DOMAIN f : 0 <= f[k] /\ f[k] <= ONE
CategoriasSc == {"A", "B", "", NULL}

\* C11 (as claimed): the score is the clamp to [0.1, 1.0] of category term
\* + 0.3 * min(ventas_ultimo_mes / 100, 1) + 0.3 * affinity, the category
\* term being 0.4 on a category match, else 0.4 * preference, else 0.
C11_Referencia ==
    sc_in.usado =>
        sc_out = RefClamp(
            (IF sc_in.categoria_actual # NULL
                  /\ sc_in.producto.categoria = sc_in.categoria_actual
             THEN (4 * ONE) \div 10
             ELSE RefPreferencia(sc_in.producto.categoria, sc_in.categoria_preferences))
            + RefVentas(sc_in.producto.ventas_ultimo_mes)
            + RefAfinidad(sc_in.producto.id, sc_in.bought_together_scores))

\* C11 (amended): as C11, with the recent-sales term added only when
\* ventas_ultimo_mes > 0 and the category match taken only when the seed's
\* category is set (neither None nor the empty string).
C11_ReferenciaConGuardas ==
    sc_in.usado =>
        sc_out = RefClamp(
            (IF sc_in.categoria_actual \notin {NULL, ""}
                  /\ sc_in.producto.categoria = sc_in.categoria_actual
             THEN (4 * ONE) \div 10
             ELSE RefPreferencia(sc_in.producto.categoria, sc_in.categoria_preferences))
            + (IF sc_in.producto.ventas_ultimo_mes > 0
               THEN RefVentas(sc_in.producto.ventas_ultimo_mes) ELSE 0)
            + RefAfinidad(sc_in.producto.id, sc_in.bought_together_scores))

\* C11 witness: a candidate in the seed's category, with a preference weight
\* for that category too, negative recent sales and an affinity, scored
\* strictly between the floor and the ceiling.
C11_Witness ==
    /\ sc_in.usado
    /\ sc_in.producto.categoria = sc_in.categoria_actual
    /\ sc_in.producto.categoria \in DOMAIN sc_in.categoria_preferences
    /\ sc_in.categoria_preferences[sc_in.producto.categoria] = ONE
    /\ sc_in.producto.ventas_ultimo_mes < 0
    /\ sc_in.producto.id \in DOMAIN sc_in.bought_together_scores
    /\ ONE \div 10 < sc_out /\ sc_out < ONE

\* The case of C12: no preference data, affinities in [0, 1], a seed
\* category, and the candidate in that category.
C12_Caso ==
    /\ sc_in.usado
    /\ sc_in.categoria_preferences = EmptyDict
    /\ EnUnidad(sc_in.bought_together_scores)
    /\ sc_in.categoria_actual \notin {NULL, ""}
    /\ sc_in.producto.categoria = sc_in.categoria_actual
\* The score of the same candidate put in another category.
C12_Otro(cat) ==
    _calculate_recommendation_score([sc_in.producto EXCEPT !.categoria = cat],
        sc_in.categoria_actual, sc_in.categoria_preferences, sc_in.bought_together_scores)
\* The recent-sales and affinity terms of the candidate.
C12_Base ==
    (IF sc_in.producto.ventas_ultimo_mes > 0
     THEN RefVentas(sc_in.producto.ventas_ultimo_mes) ELSE 0)
    + RefAfinidad(sc_in.producto.id, sc_in.bought_together_scores)

\* C12 (as claimed): with no preference data, of two candidates equal in
\* recent sales and affinity the one in the seed's category scores higher
\* than the one in another category by the full 0.4.
C12_DiferenciaCompleta ==
    C12_Caso =>
        \A cat \in CategoriasSc \ {sc_in.categoria_actual} :
            sc_out - C12_Otro(cat) = (4 * ONE) \div 10

\* C12 (amended): the matching candidate scores strictly higher; by the full
\* 0.4 when the recent-sales and affinity terms sum to at least the floor
\* 0.1, and by 0.3 plus that sum when they sum to less (the other
\* candidate is then raised to the floor).
C12_DiferenciaConPiso ==
    C12_Caso =>
        \A cat \in CategoriasSc \ {sc_in.categoria_actual} :
            /\ sc_out > C12_Otro(cat)
            /\ C12_Base >= ONE \div 10 => sc_out - C12_Otro(cat) = (4 * ONE) \div 10
            /\ C12_Base < ONE \div 10 =>
                  sc_out - C12_Otro(cat) = (3 * ONE) \div 10 + C12_Base

\* C12 witness: both cases occur, a candidate with no recent sales and no
\* affinity being one of them.
C12_Witness ==
    /\ C12_Caso
    /\ sc_in.producto.ventas_ultimo_mes = 0
    /\ sc_in.bought_together_scores = EmptyDict
    /\ sc_out = (4 * ONE) \div 10

\* The score of the same product, preferences and affinities with no seed.
C13_SinSemilla ==
    _calculate_recommendation_score(sc_in.producto, NULL,
        sc_in.categoria_preferences, sc_in.bought_together_scores)

C18_SoloRecomendaciones == [][UNCHANGED <<productos, clientes, ventas, detalles>>]_vars

\* C18 witness: one call has committed rows and the other tables hold sales.
C18_Witness ==
    \E r \in Peticiones :
        /\ pc[r] = "done"
        /\ Len(recomendaciones) > Len(antes[r])
        /\ Len(ventas) = Len(Plantillas)
        /\ \E p \in DOMAIN productos : productos[p].stock = 0

\* C19: the table of recommendations only grows at its end: every step
\* leaves the rows already stored in place and unchanged, and no stored row
\* is ever effective.  Checked under Spec.
C19_SoloAgrega ==
    /\ [][Prefijo(recomendaciones, recomendaciones')]_vars
    /\ [](\A i \in DOMAIN recomendaciones : recomendaciones[i].efectiva = FALSE)

\* C19 witness: a later call for the same customer has committed its rows
\* after the row of an earlier call.
C19_Witness ==
    \E r \in Peticiones :
        /\ pc[r] = "done"
        /\ Len(antes[r]) > 0
        /\ Len(recomendaciones) > Len(antes[r])
        /\ recomendaciones[1].cliente_id = args[r].cliente_id
        /\ recomendaciones[1] = antes[r][1]

\* The list a call with these arguments returns when it runs alone on the
\* present tables.
Solo(a) ==
    LET haySemilla == TruthyInt(a.producto_id)
        cat == IF haySemilla THEN productos[a.producto_id[1]].categoria ELSE NULL
        bts == IF haySemilla THEN _get_frequently_bought_together(a.producto_id[1])
               ELSE EmptyDict
    IN  Truncar(SortDesc(Puntuar(Candidatos(a.producto_id), cat,
                                 _get_category_preferences(a.cliente_id), bts)),
                a.limit)
\* The stored rows of one customer, in the order of the table.
FilasDe(c) ==
    LET deC(row) == row.cliente_id = c
    IN  SelectSeq(recomendaciones, deC)
SemillaPerdida(a) == a.producto_id # None /\ a.producto_id[1] \notin DOMAIN productos

\* C20: with two calls for different customers interleaved in every way, a
\* call that completes has returned the list it returns when run alone and
\* the stored rows of its customer are exactly the rows of that list; a call
\* that has not completed, or has failed and rolled back, has stored nothing;
\* every stored row carries the customer id of the call that wrote it, also
\* after the other call has failed.  Checked under SpecConc.
C20_Independientes ==
    /\ \A r \in Peticiones :
          IF pc[r] = "done"
          THEN LET solo == Solo(args[r])
               IN  /\ ~SemillaPerdida(args[r])
                   /\ resultado[r].tipo = "ok"
                   /\ resultado[r].lista = solo
                   /\ FilasDe(ClienteDe[r]) =
                         [i \in 1..Len(solo) |->
                             [cliente_id |-> ClienteDe[r],
                              producto_recomendado_id |-> solo[i].producto_id,
                              score |-> solo[i].score,
                              efectiva |-> FALSE]]
          ELSE FilasDe(ClienteDe[r]) = <<>>
    /\ Len(recomendaciones) = Len(FilasDe(1)) + Len(FilasDe(2))
    /\ \A r \in Peticiones :
          (pc[r] = "error" /\ RespondioBD(r)) => SemillaPerdida(args[r])

\* C20 witness: both calls started on the empty table; the call for customer 2
\* failed after it had added rows to its session, and the call for customer 1
\* has committed two rows.
C20_Witness ==
    /\ pc["r1"] = "done" /\ pc["r2"] = "error"
    /\ antes["r1"] = <<>> /\ antes["r2"] = <<>>
    /\ loc["r2"].i > 1
    /\ Len(recomendaciones) = 2

\* The scores of the enumerated candidates of request r, by position in the
\* enumeration.
PuntosDe(r) ==
    [i \in DOMAIN loc[r].productos |->
        _calculate_recommendation_score(loc[r].productos[i], loc[r].categoria_actual,
            loc[r].categoria_preferences, loc[r].bought_together_scores)]
\* The position of product id in the enumeration of request r.
PosEnum(r, id) == CHOOSE i \in DOMAIN loc[r].productos : loc[r].productos[i].id = id
Truncada(r) == pc[r] \in {"registrar", "commit", "done"}

\* C23: every item of the returned list has a score greater than or equal to
\* the score of every eligible candidate (stock > 0, not the seed) that was
\* not returned.  Checked under Spec.
C23_TopK ==
    \A r \in Peticiones :
        Truncada(r) =>
            LET puntos == PuntosDe(r)
                L == loc[r].recomendaciones
            IN  /\ {loc[r].productos[i].id : i \in DOMAIN loc[r].productos}
                      = Elegibles(args[r].producto_id)
                /\ \A a \in DOMAIN L :
                      \A i \in DOMAIN loc[r].productos :
                          loc[r].productos[i].id \notin Ids(L) => L[a].score >= puntos[i]

\* C23 witness: a call returned two of more candidates and one left out has a
\* strictly lower score than the last one returned.
C23_Witness ==
    \E r \in Peticiones :
        /\ pc[r] = "done"
        /\ Len(loc[r].recomendaciones) = 2
        /\ \E i \in DOMAIN loc[r].productos :
              /\ loc[r].productos[i].id \notin Ids(loc[r].recomendaciones)
              /\ PuntosDe(r)[i] < loc[r].recomendaciones[2].score
              /\ PuntosDe(r)[i] > MIN_SCORE

\* C24: two returned candidates of identical score appear in the order of
\* the candidate query, and a candidate left out by the truncation that has
\* the score of a returned one was enumerated after it.  Checked under Spec.
C24_Empates ==
    \A r \in Peticiones :
        Truncada(r) =>
            LET puntos == PuntosDe(r)
                L == loc[r].recomendaciones
            IN  /\ \A a, b \in DOMAIN L :
                      (a < b /\ L[a].score = L[b].score) =>
                          PosEnum(r, L[a].producto_id) < PosEnum(r, L[b].producto_id)
                /\ \A a \in DOMAIN L :
                      \A i \in DOMAIN loc[r].productos :
                          (/\ loc[r].productos[i].id \notin Ids(L)
                           /\ puntos[i] = L[a].score) =>
                              PosEnum(r, L[a].producto_id) < i

\* C24 witness: the truncation cut through a group of equal scores, in a
\* table enumerated by descending id.
C24_Witness ==
    \E r \in Peticiones :
        /\ pc[r] = "done"
        /\ orden[1] = NProd
        /\ Len(loc[r].recomendaciones) = 2
        /\ loc[r].recomendaciones[1].score = loc[r].recomendaciones[2].score
        /\ \E i \in DOMAIN loc[r].productos :
              /\ loc[r].productos[i].id \notin Ids(loc[r].recomendaciones)
              /\ PuntosDe(r)[i] = loc[r].recomendaciones[2].score

\* The line items of product p in the sales that contain the seed, each sale
\* taken once.
LineasJunto(p, semilla) ==
    Cardinality({j \in DOMAIN detalles :
        /\ detalles[j].producto_id = p
        /\ \E i \in DOMAIN detalles :
              /\ detalles[i].producto_id = semilla
              /\ detalles[i].venta_id = detalles[j].venta_id})

\* C25 (as claimed): the occurrence count of a related product is the number
\* of its line items in the distinct sales that contain the seed, so the
\* affinities are those counts divided by their maximum, however many line
\* items a sale has for the seed.
C25_CadaVentaUnaVez ==
    (sc_in.usado /\ sc_in.fn = "bt") =>
        LET maximo == MaxDe({LineasJunto(q, sc_in.arg) : q \in Acompanantes(sc_in.arg)})
        IN  /\ DOMAIN sc_out = Acompanantes(sc_in.arg)
            /\ \A p \in DOMAIN sc_out :
                  sc_out[p] = (LineasJunto(p, sc_in.arg) * ONE) \div maximo

\* C26: the list a call returns is a function of its arguments and of the
\* products, sales and customers alone: it is the list computed from them
\* whatever rows earlier calls have stored, so two calls with the same
\* arguments return identical lists.  Checked under Spec.
C26_SinRetroalimentacion ==
    \A r \in Peticiones :
        pc[r] = "done" =>
            LET a == args[r]
                haySemilla == a.producto_id \notin {None, Some(0)}
                prods == SelectSeq(orden,
                            LAMBDA p : /\ productos[p].stock > 0
                                       /\ (haySemilla => p # a.producto_id[1]))
                prefs == _get_category_preferences(a.cliente_id)
                cat == IF haySemilla THEN productos[a.producto_id[1]].categoria ELSE NULL
                bts == IF haySemilla THEN _get_frequently_bought_together(a.producto_id[1])
                       ELSE EmptyDict
                puntuados == [i \in DOMAIN prods |->
                                [producto_id |-> prods[i],
                                 categoria |-> productos[prods[i]].categoria,
                                 precio |-> productos[prods[i]].precio,
                                 score |-> _calculate_recommendation_score(
                                              productos[prods[i]], cat, prefs, bts),
                                 baja_rotacion |-> productos[prods[i]].baja_rotacion]]
            IN  resultado[r].lista = Truncar(SortDesc(puntuados), a.limit)

\* C26 witness: a call returned a list of two while the table already held a
\* row for one of the products it returned.
C26_Witness ==
    \E r \in Peticiones :
        /\ pc[r] = "done"
        /\ Len(resultado[r].lista) = 2
        /\ Len(antes[r]) > 0
        /\ \E i \in DOMAIN antes[r] :
              antes[r][i].producto_recomendado_id \in Ids(resultado[r].lista)

\* The quantity of product p in the first k of the line items s.
RECURSIVE SumaCantidades(_, _, _)
SumaCantidades(s, k, p) ==
    IF k = 0 THEN 0
    ELSE SumaCantidades(s, k - 1, p)
         + (IF s[k].producto_id = p THEN s[k].cantidad ELSE 0)

\* No product has negative stock.
StockNoNegativo == \A p \in DOMAIN productos : productos[p].stock >= 0

\* C21 (as claimed): no stock is ever negative, and every line item of a sale
\* that is stored fits in the product's current stock: the quantity of the
\* sale's line items for the product, up to and including that one, does not
\* exceed the stock the product has when the sale is committed.  Stated for
\* SpecVentasConc.
C21_SinSobreventa ==
    /\ []StockNoNegativo
    /\ [][\A r \in Peticiones :
            (pc[r] = "v_commit" /\ pc'[r] = "done") =>
                \A k \in DOMAIN args[r].detalles_venta :
                    LET p == args[r].detalles_venta[k].producto_id
                    IN  SumaCantidades(args[r].detalles_venta, k, p) <= productos[p].stock]_vars

\* C27 (as claimed): when a call commits its rows, every row refers to a
\* product whose stock is > 0 at that moment.  Stated for SpecMixto.
C27_EnStockAlCommit ==
    [][\A r \in Peticiones :
          (pc[r] = "commit" /\ pc'[r] = "done") =>
              \A k \in DOMAIN pendientes[r] :
                  productos[pendientes[r][k].producto_recomendado_id].stock > 0]_vars

\* C27 (amended): every row a call adds and commits refers to a product that
\* had stock > 0 in the result of the call's candidate query.  Checked under
\* SpecMixto.
C27_EnStockAlEnumerar ==
    \A r \in Peticiones :
        pc[r] \in {"registrar", "commit"} =>
            \A k \in DOMAIN pendientes[r] :
                \E i \in DOMAIN loc[r].productos :
                    /\ loc[r].productos[i].id = pendientes[r][k].producto_recomendado_id
                    /\ loc[r].productos[i].stock > 0

\* C27 witness: the call has committed a row for a product that a sale,
\* committed after the candidate query, had left without stock.
C27_Witness ==
    /\ pc["r1"] = "done" /\ pc["r2"] = "done"
    /\ resultado["r2"].tipo = "ok"
    /\ \E k \in DOMAIN recomendaciones :
          /\ productos[recomendaciones[k].producto_recomendado_id].stock = 0
          /\ \E i \in DOMAIN loc["r1"].productos :
                /\ loc["r1"].productos[i].id = recomendaciones[k].producto_recomendado_id
                /\ loc["r1"].productos[i].stock > 0

\* C30: every step of sale processing keeps stock + ventas_ultimo_mes of
\* every product; the commit of a sale moves exactly the quantities of its
\* line items from stock to ventas_ultimo_mes and stores one Venta and one
\* DetalleVenta per line item; a rejection changes no product and stores no
\* row.  Checked under SpecVentas.
C30_Conservacion ==
    [][/\ \A p \in DOMAIN productos :
             productos'[p].stock + productos'[p].ventas_ultimo_mes
                = productos[p].stock + productos[p].ventas_ultimo_mes
       /\ \A r \in Peticiones :
             /\ (pc[r] = "v_commit" /\ pc'[r] = "done") =>
                   /\ \A p \in DOMAIN productos :
                         productos'[p].stock = productos[p].stock
                            - SumaCantidades(args[r].detalles_venta,
                                             Len(args[r].detalles_venta), p)
                   /\ Len(ventas') = Len(ventas) + 1
                   /\ Len(detalles') = Len(detalles) + Len(args[r].detalles_venta)
                   /\ SubSeq(detalles', 1, Len(detalles)) = detalles
             /\ (pc[r] # "error" /\ pc'[r] = "error") =>
                   UNCHANGED <<productos, ventas, detalles>>
       /\ (\A r \in Peticiones : ~(pc[r] = "v_commit" /\ pc'[r] = "done")) =>
             UNCHANGED <<ventas, detalles>>]_vars

\* C30 witness: two sales are stored, one of them with two line items, and a
\* product is sold out.
C30_Witness ==
    /\ pc["r1"] = "done"
    /\ resultado["r1"].tipo = "ok"
    /\ Len(ventas) = 2
    /\ Len(detalles) = 3
    /\ \E p \in 1..NLibres : productos[p].stock = 0 /\ productos[p].ventas_ultimo_mes > 0

SinDuplicados ==
    \A i, j \in DOMAIN usuarios :
        i # j => /\ usuarios[i].email # usuarios[j].email
                 /\ usuarios[i].username # usuarios[j].username
YaRegistrado(user) ==
    \E i \in DOMAIN usuarios :
        usuarios[i].email = user.email \/ usuarios[i].username = user.username

\* C22 (as claimed): no two stored users share an email or a username, and a
\* registration that ends while its email or username is stored is answered
\* with status 400 and leaves the users unchanged (the database being
\* reachable).  Stated for SpecAuth.
C22_DuplicadoEs400 ==
    /\ []SinDuplicados
    /\ [][\A r \in Peticiones :
            (/\ pc[r] \in {"a_email", "a_username", "a_commit"}
             /\ pc'[r] \in {"done", "error"}
             /\ YaRegistrado(args[r])
             /\ resultado'[r].causa # "OperationalError") =>
                /\ resultado'[r].status = 400
                /\ usuarios' = usuarios]_vars

\* The seed requests that have been accepted and whose task has not ended.
EnCurso == {t \in SeedReqs : tareas[t] \in {"iniciado", "corriendo"}}

\* C28 (as claimed): at most one seeding is accepted and unfinished at any
\* time, so at most one seed_task runs.  Stated for SpecSeed.
C28_UnaTarea == Cardinality(EnCurso) <= 1

\* C29 (as claimed): the answer of GET /seed/status is true exactly when some
\* seed_task has started and not yet finished.  Stated for SpecSeed.
C29_EstadoExacto ==
    get_seed_status.is_running <=> (\E t \in SeedReqs : tareas[t] = "corriendo")

====
